---- MODULE Spec2Model ----
(***************************************************************************)
(* Model of codegen/codegen.go: the type-expression builder (getTypeName),  *)
(* the import aggregator (getImports, removeDuplicates), the field and     *)
(* type renderers (generateField, generateType) and the generation driver  *)
(* (Generate).                                                             *)
(*                                                                         *)
(* Text is modelled by TLA+ strings and built with \o, so two texts are    *)
(* equal exactly when their characters are.                                *)
(***************************************************************************)
EXTENDS Integers, Sequences, FiniteSets, TLC

VARIABLES
  arg,        \* the two schema types handed to getTypeName / getImports
  typeExpr,   \* result of getTypeName per operand
  typeImports, \* result of getImports per operand
  called,     \* which function has been applied to which operand
  schema,     \* ins.Types(): the type catalogue of the parsed schema
  conf,       \* config.Config
  pc,         \* position of Generate: "loop", "done"
  idx,        \* index of the next entity of the range loop
  results,    \* the local map results of Generate
  origin,     \* history: for every key of results, the entity that wrote it
  ret,        \* what Generate returned: [results, err]
  execs,      \* history: every tmpl.Execute call, in order
  events,     \* history: every failure met (lookup, parse, exec, format)
  rendered,   \* history: the entities handed to generateType
  run,        \* number of the current run of Generate
  first       \* what the first run returned

vars == <<arg, typeExpr, typeImports, called, schema, conf, pc, idx, results,
          origin, ret, execs, events, rendered, run, first>>

typeVars == <<arg, typeExpr, typeImports, called>>
genVars == <<schema, conf, pc, idx, results, origin, ret, execs, events,
             rendered, run, first>>

Nil == "<nil>"

(***************************************************************************)
(* Bounds.                                                                 *)
(***************************************************************************)
MaxWrap == 3        \* longest wrapper chain of a type
MaxEntities == 2    \* longest type catalogue
MaxVariants == 2    \* most template variants configured for one entity/field

(***************************************************************************)
(* internalTypeConfig                                                      *)
(***************************************************************************)
GraphqlImport == "graphql \"github.com/neelance/graphql-go\""

internalTypeConfig ==
  [n \in {"SCALAR", "Boolean", "Float", "Int", "ID", "String"} |->
     CASE n = "SCALAR"  -> [ignore |-> TRUE, goType |-> "",           importPath |-> ""]
       [] n = "Boolean" -> [ignore |-> TRUE, goType |-> "bool",       importPath |-> ""]
       [] n = "Float"   -> [ignore |-> TRUE, goType |-> "float64",    importPath |-> ""]
       [] n = "Int"     -> [ignore |-> TRUE, goType |-> "int32",      importPath |-> ""]
       [] n = "ID"      -> [ignore |-> TRUE, goType |-> "graphql.ID", importPath |-> GraphqlImport]
       [] n = "String"  -> [ignore |-> TRUE, goType |-> "string",     importPath |-> ""]]

\* variant: the ignore flag is not consulted
IgnoredNever(name) == FALSE

\* internalTypeConfig[name].ignore: a missing key reads as the zero value
Ignored(name) ==
  IF name \in DOMAIN internalTypeConfig THEN internalTypeConfig[name].ignore ELSE FALSE

(***************************************************************************)
(* introspection.Type: a chain of wrappers, outermost first, over a named  *)
(* base type.                                                              *)
(***************************************************************************)
Wrappers == {"LIST", "NON_NULL"}

BaseNames == {"SCALAR", "Boolean", "Float", "Int", "ID", "String", "Post"}

BaseKind(name) == IF name = "Post" THEN "OBJECT" ELSE "SCALAR"

RECURSIVE ChainsOfLen(_)
ChainsOfLen(n) ==
  IF n = 0 THEN {<<>>}
  ELSE {<<w>> \o c : w \in Wrappers, c \in ChainsOfLen(n - 1)}

\* the schema language has no NON_NULL directly around NON_NULL
ValidChain(c) ==
  \A i \in 1..(Len(c) - 1) : ~(c[i] = "NON_NULL" /\ c[i + 1] = "NON_NULL")

Chains == {c \in UNION {ChainsOfLen(n) : n \in 0..MaxWrap} : ValidChain(c)}

Types == [chain : Chains, base : BaseNames]

Kind(tp) == IF tp.chain # <<>> THEN Head(tp.chain) ELSE BaseKind(tp.base)
Name(tp) == IF tp.chain # <<>> THEN Nil ELSE tp.base
OfType(tp) == IF tp.chain # <<>> THEN [tp EXCEPT !.chain = Tail(tp.chain)] ELSE Nil
\* tp.OfType() != nil
HasOfType(tp) == tp.chain # <<>>

(***************************************************************************)
(* getTypeName: the label check and the goto are the recursion.            *)
(***************************************************************************)
\* variant: the jump after a LIST layer goes back to the LIST test instead of
\* the label check, so NON_NULL is looked at for the outermost layer only
RECURSIVE unwrapLists(_, _)
unwrapLists(tp, typ) ==
  IF Kind(tp) = "LIST" THEN unwrapLists(OfType(tp), typ \o "[]")
  ELSE IF Kind(tp) = "NON_NULL" THEN unwrapLists(OfType(tp), typ)
  ELSE IF Name(tp) \in DOMAIN internalTypeConfig
       THEN typ \o internalTypeConfig[Name(tp)].goType
       ELSE typ \o Name(tp) \o "Resolver"

getTypeNameSinglePass(tp, typ) ==
  IF Kind(tp) = "NON_NULL"
  THEN unwrapLists(OfType(tp), typ)
  ELSE unwrapLists(tp, typ \o "*")

RECURSIVE getTypeNameCheck(_, _)
getTypeNameCheck(tp, typ) ==
  LET nonNull == Kind(tp) = "NON_NULL"
      tp1 == IF nonNull THEN OfType(tp) ELSE tp
      typ1 == IF nonNull THEN typ ELSE typ \o "*"
  IN IF Kind(tp1) = "LIST"
     THEN getTypeNameCheck(OfType(tp1), typ1 \o "[]")
     ELSE LET name == Name(tp1)
          IN IF name \in DOMAIN internalTypeConfig
             THEN typ1 \o internalTypeConfig[name].goType
             ELSE typ1 \o name \o "Resolver"

getTypeName(tp) == getTypeNameCheck(tp, "")

(***************************************************************************)
(* getImports                                                              *)
(***************************************************************************)
RECURSIVE getImports(_)
getImports(tp) ==
  IF Name(tp) # Nil /\ Name(tp) \in DOMAIN internalTypeConfig
  THEN <<internalTypeConfig[Name(tp)].importPath>>
  ELSE IF HasOfType(tp) THEN getImports(OfType(tp)) ELSE <<>>

(***************************************************************************)
(* removeDuplicates                                                        *)
(***************************************************************************)
RECURSIVE removeDuplicatesLoop(_, _, _)
removeDuplicatesLoop(a, result, seen) ==
  IF a = <<>> THEN result
  ELSE IF Head(a) \notin seen
       THEN removeDuplicatesLoop(Tail(a), Append(result, Head(a)), seen \cup {Head(a)})
       ELSE removeDuplicatesLoop(Tail(a), result, seen)

\* variant: the collected list is passed on as it is
removeDuplicatesKeepAll(a) == a

removeDuplicates(a) == removeDuplicatesLoop(a, <<>>, {})

(***************************************************************************)
(* strings.ToLower, strings.HasPrefix                                      *)
(***************************************************************************)
UpperCase == "ABCDEFGHIJKLMNOPQRSTUVWXYZ"
LowerCase == "abcdefghijklmnopqrstuvwxyz"

ToLowerChar(c) ==
  IF \E i \in 1..Len(UpperCase) : SubSeq(UpperCase, i, i) = c
  THEN LET i == CHOOSE j \in 1..Len(UpperCase) : SubSeq(UpperCase, j, j) = c
       IN SubSeq(LowerCase, i, i)
  ELSE c

RECURSIVE ToLower(_)
ToLower(s) ==
  IF Len(s) = 0 THEN ""
  ELSE ToLowerChar(SubSeq(s, 1, 1)) \o ToLower(SubSeq(s, 2, Len(s)))

HasPrefix(s, prefix) ==
  Len(s) >= Len(prefix) /\ SubSeq(s, 1, Len(prefix)) = prefix

Contains(s, substr) ==
  \E i \in 1..(Len(s) - Len(substr) + 1) : SubSeq(s, i, i + Len(substr) - 1) = substr

RECURSIVE Join(_)
Join(strs) == IF strs = <<>> THEN "" ELSE Head(strs) \o Join(Tail(strs))

(***************************************************************************)
(* The template collaborator (package template) and the formatter          *)
(* (FormatCode).  A template body is known by the variant it belongs to    *)
(* and by whether it parses and whether it executes without error.         *)
(***************************************************************************)
KnownTemplates ==
  {"default", "alt", "noparse", "nomethod", "noexec", "noexecm", "nofmt"}

VariantNames == KnownTemplates \cup {"missing"}

Body(variant, part) ==
  [variant |-> variant,
   part |-> part,
   parses |-> ~((variant = "noparse" /\ part \in {"type", "field"})
                 \/ (variant = "nomethod" /\ part = "method")),
   executes |-> ~((variant = "noexec" /\ part \in {"type", "field"})
                   \/ (variant = "noexecm" /\ part = "method"))]

GetTypeTemplate(templateName) ==
  IF templateName \in KnownTemplates
  THEN [err |-> Nil, TypeTemplate |-> Body(templateName, "type")]
  ELSE [err |-> "type template not found: " \o templateName]

GetPropertyTemplate(templateName) ==
  IF templateName \in KnownTemplates
  THEN [err |-> Nil,
        FieldTemplate |-> Body(templateName, "field"),
        MethodTemplate |-> Body(templateName, "method")]
  ELSE [err |-> "property template not found: " \o templateName]

\* template.New(name).Funcs(templateFunMap).Parse(body)
Parse(body) ==
  IF body.parses THEN [err |-> Nil, tmpl |-> body]
  ELSE [err |-> "template: " \o body.variant \o ": parse error"]

SyntaxError == "<syntax error>"

\* the text a template writes when it runs to its end
Render(tmpl, ctx) ==
  CASE tmpl.part = "type" ->
         "// " \o tmpl.variant \o ": " \o ctx.Kind \o " " \o ctx.TypeName \o "\n"
         \o (IF tmpl.variant = "nofmt" THEN SyntaxError ELSE "")
         \o "import (" \o Join(ctx.Imports) \o ")\n"
         \o "type " \o ctx.TypeName \o "Resolver struct {\n" \o Join(ctx.Fields) \o "}\n"
         \o Join(ctx.Methods)
    [] tmpl.part = "field" ->
         ctx.FieldName \o " " \o ctx.FieldType \o " // " \o tmpl.variant \o "\n"
    [] tmpl.part = "method" ->
         "func (r *" \o ctx.TypeName \o "Resolver) " \o ctx.MethodName \o "() "
         \o ctx.MethodReturnType \o " // " \o tmpl.variant \o "\n"

\* tmpl.Execute(buf, ctx): what is written to buf, and the error returned.
\* A template that fails has written the text before the failing action.
Execute(tmpl, ctx) ==
  IF tmpl.executes THEN [out |-> Render(tmpl, ctx), err |-> Nil]
  ELSE [out |-> "// " \o tmpl.variant \o "\n",
        err |-> "template: " \o tmpl.variant \o ": exec error"]

FormatCode(text) ==
  IF Contains(text, SyntaxError)
  THEN [b |-> "", err |-> "format: syntax error"]
  ELSE [b |-> text \o "\n", err |-> Nil]

(***************************************************************************)
(* config.Config: conf.Type[name] is a TypeConfig, typeConf.Field[name] a  *)
(* field configuration; each has Template, a map from variant name to a    *)
(* parameter bag.  Reading a missing key gives the zero value.             *)
(***************************************************************************)
EmptyMap == [k \in {} |-> {}]

MapGet(m, k, zero) == IF k \in DOMAIN m THEN m[k] ELSE zero

ZeroFieldConfig == [Template |-> EmptyMap]
ZeroTypeConfig == [Template |-> EmptyMap, Field |-> EmptyMap]

\* variant: an empty Template map is left empty
DefaultIfEmptyNever(Template) == Template

\* typeConf.Template / propConf.Template after the len(...) == 0 test
DefaultIfEmpty(Template) ==
  IF Cardinality(DOMAIN Template) = 0 THEN [k \in {"default"} |-> {}] ELSE Template

\* the orders in which a range statement may visit the keys of a map
Orders(m) ==
  {o \in [1..Cardinality(DOMAIN m) -> DOMAIN m] :
     \A i, j \in DOMAIN o : i # j => o[i] # o[j]}

(***************************************************************************)
(* generateField.  order is the order in which the range over              *)
(* propConf.Template visits its keys.                                      *)
(***************************************************************************)
FieldFailure(acc, err, ev) ==
  [fieldCode |-> "", methodCode |-> "", imports |-> <<>>, err |-> err,
   execs |-> acc.execs, events |-> Append(acc.events, ev)]

ExecEvents(x, scope, entity, field, variant) ==
  IF x.err # Nil
  THEN <<[kind |-> "exec", scope |-> scope, entity |-> entity, field |-> field,
          variant |-> variant]>>
  ELSE <<>>

RECURSIVE generateFieldRange(_, _, _, _, _)
generateFieldRange(fp, tp, Template, order, acc) ==
  IF order = <<>> THEN acc
  ELSE
    LET templateName == Head(order)
        templateConfig == Template[templateName]
        name == fp.name
        typeName == tp.name
        ev(kind, scope) == [kind |-> kind, scope |-> scope, entity |-> typeName,
                            field |-> name, variant |-> templateName]
        propTemplate == GetPropertyTemplate(templateName)
    IN IF propTemplate.err # Nil
       THEN FieldFailure(acc, propTemplate.err, ev("lookup", "field"))
       ELSE
         LET p1 == Parse(propTemplate.FieldTemplate)
         IN IF p1.err # Nil
            THEN FieldFailure(acc, p1.err, ev("parse", "field"))
            ELSE
              LET fieldTypeName == getTypeName(fp.type)
                  x1 == Execute(p1.tmpl,
                          [TypeKind |-> tp.kind, FieldName |-> name,
                           FieldType |-> fieldTypeName,
                           TemplateConfig |-> templateConfig])
                  acc1 == [acc EXCEPT
                             !.fieldCode = @ \o x1.out,
                             !.execs = Append(@,
                                [scope |-> "field", entity |-> typeName, field |-> name,
                                 variant |-> templateName, bag |-> templateConfig,
                                 Imports |-> <<>>, raw |-> <<>>]),
                             !.events = @ \o ExecEvents(x1, "field", typeName, name,
                                                        templateName)]
                  p2 == Parse(propTemplate.MethodTemplate)
              IN IF p2.err # Nil
                 THEN FieldFailure(acc1, p2.err, ev("parse", "method"))
                 ELSE
                   LET x2 == Execute(p2.tmpl,
                               [TypeKind |-> tp.kind, TypeName |-> typeName,
                                MethodName |-> name,
                                MethodReturnType |-> fieldTypeName,
                                MethodReturn |-> name,
                                TemplateConfig |-> templateConfig])
                       acc2 == [acc1 EXCEPT
                                  !.methodCode = @ \o x2.out,
                                  !.execs = Append(@,
                                     [scope |-> "method", entity |-> typeName,
                                      field |-> name, variant |-> templateName,
                                      bag |-> templateConfig,
                                      Imports |-> <<>>, raw |-> <<>>]),
                                  !.events = @ \o ExecEvents(x2, "method", typeName,
                                                             name, templateName),
                                  !.imports = @ \o getImports(fp.type)]
                   IN generateFieldRange(fp, tp, Template, Tail(order), acc2)

\* propConf.Template as generateField ranges over it
FieldTemplates(fp, typeConf) ==
  DefaultIfEmpty(MapGet(typeConf.Field, fp.name, ZeroFieldConfig).Template)

generateField(fp, tp, typeConf, order) ==
  generateFieldRange(fp, tp, FieldTemplates(fp, typeConf), order,
    [fieldCode |-> "", methodCode |-> "", imports |-> <<>>, err |-> Nil,
     execs |-> <<>>, events |-> <<>>])

(***************************************************************************)
(* generateType.  typeOrder is the order in which the range over           *)
(* typeConf.Template visits its keys; fieldOrders[k][i] is the order of    *)
(* the range in generateField for field i during the k-th visit.           *)
(***************************************************************************)
RECURSIVE generateTypeFields(_, _, _, _, _)

\* the body of the loop over ifields once generateField has returned r
collectField(tp, typeConf, ifields, orders, acc, r) ==
  IF r.err # Nil
  THEN [acc EXCEPT !.err = r.err, !.execs = @ \o r.execs, !.events = @ \o r.events]
  ELSE generateTypeFields(tp, typeConf, Tail(ifields), Tail(orders),
         [acc EXCEPT !.fields = Append(@, r.fieldCode),
                     !.methods = Append(@, r.methodCode),
                     !.imports = @ \o r.imports,
                     !.execs = @ \o r.execs,
                     !.events = @ \o r.events])

generateTypeFields(tp, typeConf, ifields, orders, acc) ==
  IF ifields = <<>> THEN acc
  ELSE collectField(tp, typeConf, ifields, orders, acc,
         generateField(Head(ifields), tp, typeConf, Head(orders)))

RECURSIVE generateTypeRange(_, _, _, _, _)

\* the rest of one visit of the range once the fields are rendered into f:
\* possibleTypes, tmpl.Execute (its error dropped), next visit
executeType(tp, typeConf, typeOrder, fieldOrders, acc, tmpl, f) ==
  IF f.err # Nil
  THEN [acc EXCEPT !.err = f.err, !.execs = f.execs, !.events = f.events]
  ELSE
    LET templateName == Head(typeOrder)
        name == tp.name
        possibleTypes == tp.possibleTypes
        Imports == removeDuplicates(f.imports)
        x == Execute(tmpl,
               [Kind |-> tp.kind, PossibleTypes |-> possibleTypes,
                TypeName |-> name, Fields |-> f.fields,
                Methods |-> f.methods, Imports |-> Imports])
    IN generateTypeRange(tp, typeConf, Tail(typeOrder), Tail(fieldOrders),
         [acc EXCEPT
            !.buf = @ \o x.out,
            !.execs = Append(f.execs,
               [scope |-> "type", entity |-> name, field |-> "",
                variant |-> templateName,
                bag |-> typeConf.Template[templateName],
                Imports |-> Imports,
                raw |-> f.imports]),
            !.events = f.events \o ExecEvents(x, "type", name, "", templateName)])

generateTypeRange(tp, typeConf, typeOrder, fieldOrders, acc) ==
  IF typeOrder = <<>> THEN acc
  ELSE
    LET templateName == Head(typeOrder)
        name == tp.name
        ev(kind) == [kind |-> kind, scope |-> "type", entity |-> name,
                     field |-> "", variant |-> templateName]
        typeTemplate == GetTypeTemplate(templateName)
    IN IF typeTemplate.err # Nil
       THEN [acc EXCEPT !.err = typeTemplate.err, !.events = Append(@, ev("lookup"))]
       ELSE
         LET p == Parse(typeTemplate.TypeTemplate)
         IN IF p.err # Nil
            THEN [acc EXCEPT !.err = p.err, !.events = Append(@, ev("parse"))]
            ELSE executeType(tp, typeConf, typeOrder, fieldOrders, acc, p.tmpl,
                   generateTypeFields(tp, typeConf, tp.fields, Head(fieldOrders),
                     [fields |-> <<>>, methods |-> <<>>, imports |-> <<>>,
                      err |-> Nil, execs |-> acc.execs, events |-> acc.events]))

\* typeConf as generateType holds it after the len(...) == 0 test
TypeConf(tp, cf) ==
  LET typeConf == MapGet(cf.Type, tp.name, ZeroTypeConfig)
  IN [typeConf EXCEPT !.Template = DefaultIfEmpty(@)]

\* FormatCode(string(buf.Bytes())) and the return, r being the state after
\* the range loop
formatType(tp, r) ==
  IF r.err # Nil
  THEN [code |-> "", err |-> r.err, execs |-> r.execs, events |-> r.events]
  ELSE LET f == FormatCode(r.buf)
       IN [code |-> f.b, err |-> f.err, execs |-> r.execs,
           events |-> IF f.err # Nil
                      THEN Append(r.events,
                             [kind |-> "format", scope |-> "type", entity |-> tp.name,
                              field |-> "", variant |-> ""])
                      ELSE r.events]

generateType(tp, cf, typeOrder, fieldOrders) ==
  formatType(tp,
    generateTypeRange(tp, TypeConf(tp, cf), typeOrder, fieldOrders,
      [buf |-> "", err |-> Nil, execs |-> <<>>, events |-> <<>>]))

\* the iteration orders the ranges of one generateType call may take
TypeOrders(tp, cf) == Orders(TypeConf(tp, cf).Template)

FieldOrders(tp, cf, n) ==
  LET typeConf == TypeConf(tp, cf)
      all == UNION {Orders(FieldTemplates(tp.fields[i], typeConf)) : i \in DOMAIN tp.fields}
      perVisit == {fo \in [DOMAIN tp.fields -> all] :
                     \A i \in DOMAIN tp.fields :
                        fo[i] \in Orders(FieldTemplates(tp.fields[i], typeConf))}
  IN [1..n -> perVisit]

(***************************************************************************)
(* Inputs: the entities a catalogue is drawn from, and the configurations. *)
(***************************************************************************)
Field(name, chain, base) == [name |-> name, type |-> [chain |-> chain, base |-> base]]

Entity(name, kind, fields, possibleTypes) ==
  [name |-> name, kind |-> kind, fields |-> fields, possibleTypes |-> possibleTypes]

EntityPool ==
  { Entity("Post", "OBJECT",
           << Field("id", <<"NON_NULL">>, "ID"),
              Field("tags", <<"LIST", "NON_NULL">>, "String"),
              Field("author", <<>>, "ID") >>, <<>>),
    Entity("Id", "OBJECT", << Field("value", <<"NON_NULL">>, "Int") >>, <<>>),
    Entity("Status", "ENUM", <<>>, <<>>),
    Entity("PostInput", "INPUT_OBJECT", <<>>, <<>>),
    Entity("SearchResult", "UNION", <<>>, <<"Post">>),
    Entity("ID", "SCALAR", <<>>, <<>>),
    Entity("__Schema", "OBJECT", << Field("types", <<"NON_NULL", "LIST">>, "Post") >>, <<>>) }

Catalogues ==
  {c \in UNION {[1..n -> EntityPool] : n \in 1..MaxEntities} :
     \A i, j \in DOMAIN c : i # j => c[i].name # c[j].name}

Bag(variant) == {<<"variant", variant>>}

TemplateMap(variants) == [v \in variants |-> Bag(v)]

\* a configuration of entity Post and of its field id
Config(tv, fv) ==
  [Type |->
     IF tv = {} /\ fv = {} THEN EmptyMap
     ELSE [n \in {"Post"} |->
             [Template |-> TemplateMap(tv),
              Field |-> IF fv = {} THEN EmptyMap
                        ELSE [f \in {"id"} |-> [Template |-> TemplateMap(fv)]]]]]

VariantSets(n) == {vs \in SUBSET VariantNames : Cardinality(vs) <= n}

ConfigsWithin ==
  UNION {{Config(tv, fv) : fv \in VariantSets(MaxVariants - Cardinality(tv))} :
           tv \in VariantSets(MaxVariants)}

ConfigsFor(c) ==
  IF \E i \in DOMAIN c : c[i].name = "Post" THEN ConfigsWithin ELSE {Config({}, {})}

(***************************************************************************)
(* Generate                                                                *)
(***************************************************************************)
NoReturn == [nilMap |-> TRUE, results |-> EmptyMap, err |-> Nil]

FileName(name) == ToLower(name) \o "_gen.go"

MapPut(m, k, v) == [x \in DOMAIN m \cup {k} |-> IF x = k THEN v ELSE m[x]]

Unsupported == {"ENUM", "INPUT_OBJECT", "UNION"}

\* variant: return results, err
ReturnPartial(res, err) == [nilMap |-> FALSE, results |-> res, err |-> err]

\* return nil, err
ReturnError(res, err) == [nilMap |-> TRUE, results |-> EmptyMap, err |-> err]

\* return results, nil
ReturnResults(res) == [nilMap |-> FALSE, results |-> res, err |-> Nil]

InLoop == pc = "loop" /\ idx <= Len(schema)

\* strings.HasPrefix(name, "_"): continue
SkipInternal ==
  /\ InLoop
  /\ HasPrefix(schema[idx].name, "_")
  /\ idx' = idx + 1
  /\ UNCHANGED <<typeVars, schema, conf, pc, results, origin, ret, execs, events,
                 rendered, run, first>>

\* internalTypeConfig[name].ignore: continue
SkipIgnored ==
  /\ InLoop
  /\ ~HasPrefix(schema[idx].name, "_")
  /\ Ignored(schema[idx].name)
  /\ idx' = idx + 1
  /\ UNCHANGED <<typeVars, schema, conf, pc, results, origin, ret, execs, events,
                 rendered, run, first>>

Processed(qlType) ==
  ~HasPrefix(qlType.name, "_") /\ ~Ignored(qlType.name)

\* case "ENUM", "INPUT_OBJECT", "UNION": code stays "", then results[fileName] = code
NotSupported ==
  /\ InLoop
  /\ Processed(schema[idx])
  /\ schema[idx].kind \in Unsupported
  /\ results' = MapPut(results, FileName(schema[idx].name), "")
  /\ origin' = MapPut(origin, FileName(schema[idx].name), schema[idx].name)
  /\ idx' = idx + 1
  /\ UNCHANGED <<typeVars, schema, conf, pc, ret, execs, events, rendered, run, first>>

\* default: generateType succeeds, then results[fileName] = code
GenerateTypeOk ==
  /\ InLoop
  /\ Processed(schema[idx])
  /\ schema[idx].kind \notin Unsupported
  /\ \E typeOrder \in TypeOrders(schema[idx], conf) :
       \E fieldOrders \in FieldOrders(schema[idx], conf, Len(typeOrder)) :
         \E r \in {generateType(schema[idx], conf, typeOrder, fieldOrders)} :
            /\ r.err = Nil
            /\ results' = MapPut(results, FileName(schema[idx].name), r.code)
            /\ origin' = MapPut(origin, FileName(schema[idx].name), schema[idx].name)
            /\ execs' = execs \o r.execs
            /\ events' = events \o r.events
  /\ rendered' = Append(rendered, [name |-> schema[idx].name, err |-> FALSE])
  /\ idx' = idx + 1
  /\ UNCHANGED <<typeVars, schema, conf, pc, ret, run, first>>

\* default: generateType fails, return nil, err
GenerateTypeErr ==
  /\ InLoop
  /\ Processed(schema[idx])
  /\ schema[idx].kind \notin Unsupported
  /\ \E typeOrder \in TypeOrders(schema[idx], conf) :
       \E fieldOrders \in FieldOrders(schema[idx], conf, Len(typeOrder)) :
         \E r \in {generateType(schema[idx], conf, typeOrder, fieldOrders)} :
            /\ r.err # Nil
            /\ ret' = ReturnError(results, r.err)
            /\ execs' = execs \o r.execs
            /\ events' = events \o r.events
  /\ rendered' = Append(rendered, [name |-> schema[idx].name, err |-> TRUE])
  /\ pc' = "done"
  /\ UNCHANGED <<typeVars, schema, conf, idx, results, origin, run, first>>

\* the range is exhausted: return results, nil
Return ==
  /\ pc = "loop"
  /\ idx > Len(schema)
  /\ ret' = ReturnResults(results)
  /\ pc' = "done"
  /\ UNCHANGED <<typeVars, schema, conf, idx, results, origin, execs, events,
                 rendered, run, first>>

\* Generate is called again with the same schema text and configuration
Rerun ==
  /\ pc = "done"
  /\ run = 1
  /\ first' = ret
  /\ run' = 2
  /\ pc' = "loop"
  /\ idx' = 1
  /\ results' = EmptyMap
  /\ origin' = EmptyMap
  /\ ret' = NoReturn
  /\ execs' = <<>>
  /\ events' = <<>>
  /\ rendered' = <<>>
  /\ UNCHANGED <<typeVars, schema, conf>>

(***************************************************************************)
(* getTypeName and getImports applied to two types over the same base.     *)
(***************************************************************************)
Operands == {"a", "b"}

ResolveTypeName ==
  \E x \in Operands :
    /\ <<"getTypeName", x>> \notin called
    /\ typeExpr' = [typeExpr EXCEPT ![x] = getTypeName(arg[x])]
    /\ called' = called \cup {<<"getTypeName", x>>}
    /\ UNCHANGED <<arg, typeImports, genVars>>

CollectImports ==
  \E x \in Operands :
    /\ <<"getImports", x>> \notin called
    /\ typeImports' = [typeImports EXCEPT ![x] = getImports(arg[x])]
    /\ called' = called \cup {<<"getImports", x>>}
    /\ UNCHANGED <<arg, typeExpr, genVars>>

(***************************************************************************)
(* Specifications                                                          *)
(***************************************************************************)
TypesIdle ==
  /\ arg = [x \in Operands |-> [chain |-> <<>>, base |-> "ID"]]
  /\ typeExpr = [x \in Operands |-> ""]
  /\ typeImports = [x \in Operands |-> <<>>]
  /\ called = {}

GenerateStart ==
  /\ idx = 1
  /\ results = EmptyMap
  /\ origin = EmptyMap
  /\ ret = NoReturn
  /\ execs = <<>>
  /\ events = <<>>
  /\ rendered = <<>>
  /\ run = 1
  /\ first = NoReturn

Init ==
  /\ TypesIdle
  /\ schema \in Catalogues
  /\ conf \in ConfigsFor(schema)
  /\ GenerateStart
  /\ pc = "loop"

Next ==
  \/ SkipInternal
  \/ SkipIgnored
  \/ NotSupported
  \/ GenerateTypeOk
  \/ GenerateTypeErr
  \/ Return

Spec == Init /\ [][Next]_vars

NextTwice == Next \/ Rerun

SpecTwice == Init /\ [][NextTwice]_vars

InitTypes ==
  /\ arg \in {f \in [Operands -> Types] : f["a"].base = f["b"].base}
  /\ typeExpr = [x \in Operands |-> ""]
  /\ typeImports = [x \in Operands |-> <<>>]
  /\ called = {}
  /\ schema = <<>>
  /\ conf = Config({}, {})
  /\ GenerateStart
  /\ pc = "idle"

NextTypes == ResolveTypeName \/ CollectImports

SpecTypes == InitTypes /\ [][NextTypes]_vars

(***************************************************************************)
(* Properties                                                              *)
(***************************************************************************)
Range(seq) == {seq[i] : i \in DOMAIN seq}

Count(seq, v) == Cardinality({i \in DOMAIN seq : seq[i] = v})

Applied(f, x) == <<f, x>> \in called

T(chain, base) == [chain |-> chain, base |-> base]

\* the marker of the layer at position i of chain c: nothing when the layer
\* sits directly inside a NON_NULL, a pointer otherwise
LayerMarker(c, i) == IF i > 1 /\ c[i - 1] = "NON_NULL" THEN "" ELSE "*"

BaseLiteral(name) ==
  IF name \in DOMAIN internalTypeConfig
  THEN internalTypeConfig[name].goType
  ELSE name \o "Resolver"

RECURSIVE ExpectedFrom(_, _, _)
ExpectedFrom(c, i, base) ==
  IF i > Len(c) THEN LayerMarker(c, i) \o BaseLiteral(base)
  ELSE (IF c[i] = "LIST" THEN LayerMarker(c, i) \o "[]" ELSE "")
       \o ExpectedFrom(c, i + 1, base)

Expected(tp) == ExpectedFrom(tp.chain, 1, tp.base)

\* C1: getTypeName returns, for every chain of LIST and NON_NULL wrappers over
\* a named base, the layer-by-layer text: per layer nothing inside a NON_NULL
\* and "*" otherwise, "[]" per LIST, then the mapped literal or name+"Resolver";
\* ID! is "graphql.ID", [String!] is "*[]string", [Post] is "*[]*PostResolver".
C1_TypeExpression ==
  \A x \in Operands :
    Applied("getTypeName", x) =>
      /\ typeExpr[x] = Expected(arg[x])
      /\ arg[x] = T(<<"NON_NULL">>, "ID") => typeExpr[x] = "graphql.ID"
      /\ arg[x] = T(<<"LIST", "NON_NULL">>, "String") => typeExpr[x] = "*[]string"
      /\ arg[x] = T(<<"LIST">>, "Post") => typeExpr[x] = "*[]*PostResolver"

C1_Witness ==
  /\ Applied("getTypeName", "a")
  /\ arg["a"] = T(<<"LIST", "NON_NULL">>, "String")
  /\ typeExpr["a"] = "*[]string"

\* C8: two different wrapper chains over the same base never resolve to the
\* same expression; [String!]!, [String!] and [String]! give "[]string",
\* "*[]string" and "[]*string".
C8_OrderSensitive ==
  /\ (Applied("getTypeName", "a") /\ Applied("getTypeName", "b")
        /\ arg["a"].base = arg["b"].base /\ arg["a"].chain # arg["b"].chain)
       => typeExpr["a"] # typeExpr["b"]
  /\ \A x \in Operands :
       Applied("getTypeName", x) =>
         /\ arg[x] = T(<<"NON_NULL", "LIST", "NON_NULL">>, "String")
              => typeExpr[x] = "[]string"
         /\ arg[x] = T(<<"LIST", "NON_NULL">>, "String") => typeExpr[x] = "*[]string"
         /\ arg[x] = T(<<"NON_NULL", "LIST">>, "String") => typeExpr[x] = "[]*string"

C8_Witness ==
  /\ Applied("getTypeName", "a") /\ Applied("getTypeName", "b")
  /\ arg["a"] = T(<<"LIST", "NON_NULL">>, "String")
  /\ arg["b"] = T(<<"NON_NULL", "LIST">>, "String")
  /\ typeExpr["a"] = "*[]string"
  /\ typeExpr["b"] = "[]*string"

\* the scalar names that declare a dependency reference
HasReference(name) ==
  name \in DOMAIN internalTypeConfig /\ internalTypeConfig[name].importPath # ""

\* C10: getImports returns a list with no elements for every type whose base
\* declares no dependency reference (mapped without reference, or unmapped),
\* a non-empty list when it declares one, and the same list for every
\* wrapping of the same base.
C10_EmptyWithoutReference ==
  /\ \A x \in Operands :
       Applied("getImports", x) =>
         IF HasReference(arg[x].base)
         THEN typeImports[x] # <<>>
         ELSE typeImports[x] = <<>>
  /\ (Applied("getImports", "a") /\ Applied("getImports", "b"))
       => typeImports["a"] = typeImports["b"]

Done == pc = "done"

SchemaNames == {schema[i].name : i \in DOMAIN schema}

EntityNamed(n) == schema[CHOOSE i \in DOMAIN schema : schema[i].name = n]

\* C2: after a run that ends without error, the returned mapping has no key
\* lowercase(name)+"_gen.go" for any ENUM, INPUT_OBJECT or UNION entity.
C2_NoEntryForUnsupported ==
  (Done /\ ret.err = Nil) =>
    \A i \in DOMAIN schema :
      schema[i].kind \in {"ENUM", "INPUT_OBJECT", "UNION"}
        => FileName(schema[i].name) \notin DOMAIN ret.results

HardFailure(e) == e.kind \in {"lookup", "parse", "format"}

\* the configuration names a type-level variant the template lookup rejects,
\* for an entity of the schema that reaches generateType
UnknownTypeVariant ==
  \E i \in DOMAIN schema :
    /\ schema[i].name \in DOMAIN conf.Type
    /\ schema[i].kind \in {"OBJECT", "INTERFACE"}
    /\ "missing" \in DOMAIN conf.Type[schema[i].name].Template

\* C3: when a template lookup, a template parse or the formatter fails, for
\* any entity or field and at any position of the iteration, Generate
\* returns an error and a nil mapping: no artifact of an earlier entity.
C3_FailFast ==
  Done =>
    /\ (\E k \in DOMAIN events : HardFailure(events[k]))
         => (ret.err # Nil /\ ret.nilMap /\ DOMAIN ret.results = {})
    /\ UnknownTypeVariant
         => (ret.err # Nil /\ ret.nilMap /\ DOMAIN ret.results = {})

C3_Witness ==
  /\ Done
  /\ \E k \in DOMAIN events : HardFailure(events[k])
  /\ Len(rendered) = 2
  /\ ~rendered[1].err
  /\ DOMAIN results # {}
  /\ ret.nilMap

\* C4: a second run of Generate on the same schema and configuration returns
\* the same text for every filename as the first.
C4_Idempotent ==
  (Done /\ run = 2) =>
    /\ DOMAIN ret.results = DOMAIN first.results
    /\ \A k \in DOMAIN ret.results : ret.results[k] = first.results[k]

\* the references the fields of an entity need: the reference of every
\* field whose base type is a scalar declaring one
NeededReferences(entity) ==
  {internalTypeConfig[entity.fields[i].type.base].importPath :
     i \in {j \in DOMAIN entity.fields : HasReference(entity.fields[j].type.base)}}

FirstIndex(seq, v) == CHOOSE i \in DOMAIN seq : seq[i] = v /\ \A j \in 1..(i - 1) : seq[j] # v

FirstSeenOrder(list, raw) ==
  /\ Range(list) = Range(raw)
  /\ \A i, j \in DOMAIN list : i < j => FirstIndex(raw, list[i]) < FirstIndex(raw, list[j])

\* C5: the Imports handed to an entity-level template hold the reference of a
\* scalar exactly once when some field's base type maps to it, however many
\* fields and field variants ask for it, and keep first-seen order.
C5_ImportsOnce ==
  \A k \in DOMAIN execs :
    execs[k].scope = "type" =>
      /\ \A ref \in NeededReferences(EntityNamed(execs[k].entity)) :
           Count(execs[k].Imports, ref) = 1
      /\ FirstSeenOrder(execs[k].Imports, execs[k].raw)

C5_Witness ==
  \E k \in DOMAIN execs :
    /\ execs[k].scope = "type"
    /\ execs[k].entity = "Post"
    /\ Count(execs[k].raw, GraphqlImport) = 3
    /\ Count(execs[k].Imports, GraphqlImport) = 1
    /\ execs[k].Imports = <<GraphqlImport, "">>

SkipGeneration == {"SCALAR", "Boolean", "Float", "Int", "ID", "String"}

Skipped(name) == name \in SkipGeneration \/ SubSeq(name, 1, 1) = "_"

\* C6: no key of the mapping is derived from an entity flagged
\* skip-generation or named with the prefix "_": such an entity is never
\* rendered and never inserts, in the local mapping or the returned one.
C6_SkippedNeverEmitted ==
  /\ \A k \in DOMAIN results : ~Skipped(origin[k])
  /\ \A k \in DOMAIN rendered : ~Skipped(rendered[k].name)
  /\ \A k \in DOMAIN execs : ~Skipped(execs[k].entity)
  /\ Done => \A k \in DOMAIN ret.results : k \in DOMAIN results /\ ~Skipped(origin[k])

C6_Witness ==
  /\ Done
  /\ ret.err = Nil
  /\ SchemaNames = {"ID", "Id"}
  /\ DOMAIN ret.results = {"id_gen.go"}
  /\ origin["id_gen.go"] = "Id"

\* C7: a template that parses but fails while executing, at entity level, in
\* a field declaration or in an accessor, makes Generate return an error and
\* no mapping.
C7_RenderFailureAborts ==
  (Done /\ \E k \in DOMAIN events : events[k].kind = "exec")
    => (ret.err # Nil /\ ret.nilMap)

ConfiguredTypeVariants(n) ==
  IF n \in DOMAIN conf.Type THEN DOMAIN conf.Type[n].Template ELSE {}

ConfiguredFieldVariants(n, f) ==
  IF n \in DOMAIN conf.Type /\ f \in DOMAIN conf.Type[n].Field
  THEN DOMAIN conf.Type[n].Field[f].Template
  ELSE {}

ExecsOf(scope, n, f) ==
  SelectSeq(execs, LAMBDA e : e.scope = scope /\ e.entity = n /\ e.field = f)

\* the variants run are the configured ones, each once per round, or the one
\* "default" variant with an empty parameter bag when none is configured
RunsVariants(es, configured, rounds) ==
  IF configured = {}
  THEN /\ Len(es) = rounds
       /\ \A k \in DOMAIN es : es[k].variant = "default" /\ es[k].bag = {}
  ELSE /\ Len(es) = rounds * Cardinality(configured)
       /\ {es[k].variant : k \in DOMAIN es} = configured

\* C9: for an entity or field with no configured variant exactly one variant
\* "default" with an empty parameter bag is rendered (one entity-level
\* execution, one declaration and one accessor execution per field and
\* entity-level variant); with configured variants no "default" is added.
C9_DefaultVariant ==
  \A r \in DOMAIN rendered :
    ~rendered[r].err =>
      LET n == rendered[r].name
          rounds == Len(ExecsOf("type", n, ""))
      IN /\ RunsVariants(ExecsOf("type", n, ""), ConfiguredTypeVariants(n), 1)
         /\ \A i \in DOMAIN EntityNamed(n).fields :
              LET f == EntityNamed(n).fields[i].name
              IN /\ RunsVariants(ExecsOf("field", n, f), ConfiguredFieldVariants(n, f), rounds)
                 /\ RunsVariants(ExecsOf("method", n, f), ConfiguredFieldVariants(n, f), rounds)

C9_Witness ==
  /\ Done
  /\ ret.err = Nil
  /\ \E r \in DOMAIN rendered : rendered[r].name = "Post" /\ ~rendered[r].err
  /\ ConfiguredTypeVariants("Post") = {}
  /\ ConfiguredFieldVariants("Post", "id") = {}
  /\ Len(ExecsOf("type", "Post", "")) = 1
  /\ Len(ExecsOf("field", "Post", "id")) = 1
  /\ ExecsOf("field", "Post", "id")[1].variant = "default"
  /\ ExecsOf("field", "Post", "id")[1].bag = {}

====
